---- MODULE Spec2Model ----
(***************************************************************************)
(* Model of "ML Algo/ml_algo.py": the pair-testing script.  The script     *)
(* fetches the closing prices of two tickers, subtracts them into a        *)
(* spread, prints a summary, and runs the ADF and the Phillips-Perron test *)
(* on the spread, printing one verdict per test.                           *)
(*                                                                         *)
(* The script is straight-line code without any try/except, so an          *)
(* exception raised by a call ends the run.  The data provider (yfinance), *)
(* the indicator package (ta) and the two numerical routines (statsmodels  *)
(* adfuller, arch PhillipsPerron) are not part of the script: each call    *)
(* either raises or returns a value, and which of the two happens is the   *)
(* environment's choice.                                                   *)
(*                                                                         *)
(* The state is taken right after the four input() calls of lines 74-77.   *)
(***************************************************************************)
EXTENDS Integers, Sequences, FiniteSets

\* ---------------------------------------------------------------- bounds
\* Trading days are numbered 1..MaxDate.
MaxDate == 3
\* Closing prices range over 1..MaxPrice.
MaxPrice == 2
\* p-values are measured on a grid of 10 * PRes steps between 0 and 1.
PRes == 1

\* The p-value n of the model stands for n / PScale.
PScale == 10 * PRes

Dates == 1..MaxDate
Prices == 1..MaxPrice

\* ------------------------------------------------- floating point values
\* A Python float is either a number or NaN.
Num(n) == [nan |-> FALSE, val |-> n]
NaN == [nan |-> TRUE, val |-> 0]
\* A name of the script that is not bound yet.
Unbound == [nan |-> TRUE, val |-> -1]

\* a - b on floats: NaN as soon as one operand is NaN.
FSub(a, b) == IF a.nan \/ b.nan THEN NaN ELSE Num(a.val - b.val)

\* a < b on floats, with the strictness of the comparison given up.
FLtOrEqual(a, b) == ~a.nan /\ ~b.nan /\ a.val <= b.val
\* a < b on floats, with the operands the wrong way round.
FLtSwapped(a, b) == ~a.nan /\ ~b.nan /\ b.val < a.val
\* a < b on floats: every comparison with NaN is False.
FLt(a, b) == ~a.nan /\ ~b.nan /\ a.val < b.val

\* The literal 0.3 of lines 90 and 97, in units of 1/PScale.
Threshold == 3 * PRes

\* The p-values a test can return.
PValues == {Num(n) : n \in 0..PScale} \cup {NaN}

\* ----------------------------------------------------------------- series
\* A pandas Series indexed by date: a sequence of [date, val] rows.
RECURSIVE Ascending(_)
Ascending(D) ==
  IF D = {} THEN <<>>
  ELSE LET m == CHOOSE x \in D : \A y \in D : x <= y
       IN <<m>> \o Ascending(D \ {m})

Index(s) == [i \in DOMAIN s |-> s[i].date]
DateSet(s) == {s[i].date : i \in DOMAIN s}
At(s, d) == s[CHOOSE i \in DOMAIN s : s[i].date = d].val

\* The Close column of a frame the provider returned: one price per trading
\* day of the frame, ascending by date.
CloseColumn(f) ==
  LET idx == Ascending(DOMAIN f)
  IN [i \in DOMAIN idx |-> [date |-> idx[i], val |-> Num(f[idx[i]])]]

AllSeries ==
  {CloseColumn(f) : f \in UNION {[D -> Prices] : D \in (SUBSET Dates) \ {{}}}}

\* b - a: the operands of the subtraction exchanged.
SubReversed(a, b) ==
  LET idx == IF Index(a) = Index(b) THEN Index(a)
             ELSE Ascending(DateSet(a) \cup DateSet(b))
  IN [i \in DOMAIN idx |->
        [date |-> idx[i],
         val  |-> IF idx[i] \in DateSet(a) /\ idx[i] \in DateSet(b)
                  THEN FSub(At(b, idx[i]), At(a, idx[i]))
                  ELSE NaN]]

\* a - b on two Series.  Equal indexes are kept as they are; otherwise both
\* operands are reindexed to the sorted union of the two indexes, a row
\* missing from an operand is NaN there, and so is the difference.
Sub(a, b) ==
  LET idx == IF Index(a) = Index(b) THEN Index(a)
             ELSE Ascending(DateSet(a) \cup DateSet(b))
  IN [i \in DOMAIN idx |->
        [date |-> idx[i],
         val  |-> IF idx[i] \in DateSet(a) /\ idx[i] \in DateSet(b)
                  THEN FSub(At(a, idx[i]), At(b, idx[i]))
                  ELSE NaN]]

\* The "count" row of Series.describe(): the number of non-NaN values.
Count(s) == Cardinality({i \in DOMAIN s : ~s[i].val.nan})

\* ------------------------------------------------------------------ state
VARIABLES
  pc,          \* the statement the script is at
  stock1,      \* line 80
  stock2,      \* line 81
  spread,      \* line 84
  adf_pvalue,  \* line 89
  pp_pvalue,   \* line 96
  out,         \* the lines printed so far
  steps,       \* the calls and statements started so far, in order
  err          \* the call whose exception ended the run, or "none"

vars == <<pc, stock1, stock2, spread, adf_pvalue, pp_pvalue, out, steps, err>>

Init ==
  /\ pc = "fetch1"
  /\ stock1 = <<>>
  /\ stock2 = <<>>
  /\ spread = <<>>
  /\ adf_pvalue = Unbound
  /\ pp_pvalue = Unbound
  /\ out = <<>>
  /\ steps = <<>>
  /\ err = "none"

\* An exception leaves the script: nothing catches it.
Propagate(origin) ==
  /\ pc' = "crashed"
  /\ err' = origin

\* The verdict line of lines 90-93 and 97-100.
VerdictLine(test, p) ==
  [line |-> "verdict", test |-> test, cointegrated |-> FLt(p, Num(Threshold))]

\* ---------------------------------------------------------------- actions
\* Line 80: stock1 = fetch_stock_data(ticker1, ...)['Close'].
Fetch1 ==
  /\ pc = "fetch1"
  /\ steps' = Append(steps, "fetch1")
  /\ \/ /\ \E s \in AllSeries : stock1' = s
        /\ pc' = "fetch2"
        /\ UNCHANGED err
     \/ /\ Propagate("fetch_stock_data")
        /\ UNCHANGED stock1
  /\ UNCHANGED <<stock2, spread, adf_pvalue, pp_pvalue, out>>

\* Line 81 with the exception swallowed: the run goes on without the data.
Fetch2Swallow ==
  /\ pc = "fetch2"
  /\ steps' = Append(steps, "fetch2")
  /\ \/ /\ \E s \in AllSeries : stock2' = s
        /\ pc' = "spread"
        /\ UNCHANGED err
     \/ /\ stock2' = stock1
        /\ pc' = "spread"
        /\ err' = "fetch_stock_data"
  /\ UNCHANGED <<stock1, spread, adf_pvalue, pp_pvalue, out>>

\* Line 81: stock2 = fetch_stock_data(ticker2, ...)['Close'].
Fetch2 ==
  /\ pc = "fetch2"
  /\ steps' = Append(steps, "fetch2")
  /\ \/ /\ \E s \in AllSeries : stock2' = s
        /\ pc' = "spread"
        /\ UNCHANGED err
     \/ /\ Propagate("fetch_stock_data")
        /\ UNCHANGED stock2
  /\ UNCHANGED <<stock1, spread, adf_pvalue, pp_pvalue, out>>

\* Line 84: spread = stock1 - stock2.
ComputeSpread ==
  /\ pc = "spread"
  /\ spread' = Sub(stock1, stock2)
  /\ steps' = Append(steps, "spread")
  /\ pc' = "summary"
  /\ UNCHANGED <<stock1, stock2, adf_pvalue, pp_pvalue, out, err>>

\* Lines 85-86: print the summary of the spread.
PrintSummary ==
  /\ pc = "summary"
  /\ out' = Append(out, [line |-> "summary", count |-> Count(spread)])
  /\ steps' = Append(steps, "summary")
  /\ pc' = "adf"
  /\ UNCHANGED <<stock1, stock2, spread, adf_pvalue, pp_pvalue, err>>

\* Line 89: adf_pvalue = adf_test(spread), lines 43-49.
RunADF ==
  /\ pc = "adf"
  /\ steps' = Append(steps, "adf")
  /\ \/ \E p \in PValues :
          /\ adf_pvalue' = p
          /\ out' = Append(out, [line |-> "p-value", test |-> "ADF", p |-> p])
          /\ pc' = "adf_verdict"
          /\ UNCHANGED err
     \/ /\ Propagate("adfuller")
        /\ UNCHANGED <<adf_pvalue, out>>
  /\ UNCHANGED <<stock1, stock2, spread, pp_pvalue>>

\* Lines 90-93: the ADF verdict.
PrintADFVerdict ==
  /\ pc = "adf_verdict"
  /\ out' = Append(out, VerdictLine("ADF", adf_pvalue))
  /\ steps' = Append(steps, "adf_verdict")
  /\ pc' = "pp"
  /\ UNCHANGED <<stock1, stock2, spread, adf_pvalue, pp_pvalue, err>>

\* Line 96: pp_pvalue = phillips_perron_test(spread), lines 51-56.
RunPP ==
  /\ pc = "pp"
  /\ steps' = Append(steps, "pp")
  /\ \/ \E p \in PValues :
          /\ pp_pvalue' = p
          /\ out' = Append(out, [line |-> "p-value", test |-> "PP", p |-> p])
          /\ pc' = "pp_verdict"
          /\ UNCHANGED err
     \/ /\ Propagate("PhillipsPerron")
        /\ UNCHANGED <<pp_pvalue, out>>
  /\ UNCHANGED <<stock1, stock2, spread, adf_pvalue>>

\* Lines 97-100 with the verdict taken from the other test's p-value.
PrintPPVerdictOfADF ==
  /\ pc = "pp_verdict"
  /\ out' = Append(out, VerdictLine("PP", adf_pvalue))
  /\ steps' = Append(steps, "pp_verdict")
  /\ pc' = "done"
  /\ UNCHANGED <<stock1, stock2, spread, adf_pvalue, pp_pvalue, err>>

\* Lines 97-100: the Phillips-Perron verdict.
PrintPPVerdict ==
  /\ pc = "pp_verdict"
  /\ out' = Append(out, VerdictLine("PP", pp_pvalue))
  /\ steps' = Append(steps, "pp_verdict")
  /\ pc' = "done"
  /\ UNCHANGED <<stock1, stock2, spread, adf_pvalue, pp_pvalue, err>>

Next ==
  \/ Fetch1
  \/ Fetch2
  \/ ComputeSpread
  \/ PrintSummary
  \/ RunADF
  \/ PrintADFVerdict
  \/ RunPP
  \/ PrintPPVerdict

Spec == Init /\ [][Next]_vars

\* ------------------------------------------------------------- properties
Has(step) == \E i \in DOMAIN steps : steps[i] = step
Ended == pc \in {"done", "crashed"}
CommonDates == DateSet(stock1) \cap DateSet(stock2)
\* The p-value the script holds for a test.
PValueOf(test) == IF test = "ADF" THEN adf_pvalue ELSE pp_pvalue
Verdicts == {i \in DOMAIN out : out[i].line = "verdict"}
\* The order of the statements of lines 80-100.
Order ==
  <<"fetch1", "fetch2", "spread", "summary",
    "adf", "adf_verdict", "pp", "pp_verdict">>

\* C1: when the two series' date sets differ, the spread holds exactly the
\* dates present in both series (inner join): its length is the size of
\* the intersection and none of its values is missing.
C1_SpreadIsInnerJoin ==
  (Has("spread") /\ DateSet(stock1) # DateSet(stock2)) =>
    /\ DateSet(spread) = CommonDates
    /\ Len(spread) = Cardinality(CommonDates)
    /\ \A i \in DOMAIN spread : ~spread[i].val.nan

\* C2: for two non-empty series without a common date the run stops at the
\* spread step, and neither the ADF nor the Phillips-Perron test is run.
C2_DisjointDatesStopAtSpread ==
  (Has("spread") /\ stock1 # <<>> /\ stock2 # <<>> /\ CommonDates = {}) =>
    /\ pc = "crashed"
    /\ ~Has("adf")
    /\ ~Has("pp")

\* C3: when the ADF test ends with an error, the Phillips-Perron test is
\* still run on the spread and its verdict is still printed.
C3_ADFErrorDoesNotStopPP ==
  (Ended /\ err = "adfuller") =>
    /\ Has("pp")
    /\ \E i \in Verdicts : out[i].test = "PP"

\* C4: each printed verdict is "may be cointegrated" exactly when that
\* test's p-value is strictly below the threshold, and "do not show strong
\* cointegration" otherwise (a p-value equal to the threshold included);
\* both tests use the same threshold, 0.30.
C4_VerdictIffBelowThreshold ==
  /\ Threshold * 10 = 3 * PScale
  /\ \A i \in Verdicts :
       LET p == PValueOf(out[i].test)
       IN out[i].cointegrated = (~p.nan /\ p.val < Threshold)

C4_Witness ==
  /\ pc = "done"
  /\ adf_pvalue = Num(Threshold)
  /\ pp_pvalue = Num(Threshold - 1)
  /\ out[3].cointegrated = FALSE
  /\ out[5].cointegrated = TRUE

\* C5: when either fetch fails, the run ends there: the fetch is not
\* called again, no spread is computed, no test is run and nothing is
\* printed.
C5_FetchFailureAborts ==
  (err = "fetch_stock_data") =>
    /\ pc = "crashed"
    /\ steps \in {<<"fetch1">>, <<"fetch1", "fetch2">>}
    /\ spread = <<>>
    /\ adf_pvalue = Unbound
    /\ pp_pvalue = Unbound
    /\ out = <<>>

C5_Witness ==
  /\ err = "fetch_stock_data"
  /\ pc = "crashed"
  /\ steps = <<"fetch1", "fetch2">>
  /\ stock1 # <<>>

\* Every value of the series is zero.
AllZero(s) == s # <<>> /\ \A i \in DOMAIN s : s[i].val = Num(0)

\* C6: on a constant all-zero spread both tests fail with an error; here:
\* when the ADF routine has failed on such a spread, the Phillips-Perron
\* test has been run as well and has printed no verdict.
C6_ZeroSpreadFailsBothTests ==
  (Ended /\ AllZero(spread) /\ err = "adfuller") =>
    /\ Has("pp")
    /\ Verdicts = {}

\* C7: for two series with identical date sets the spread has the length
\* of the inputs, keeps their dates in ascending order, and its value at
\* each date is the first series' price minus the second series' price.
C7_IdenticalDatesSpread ==
  (Has("spread") /\ DateSet(stock1) = DateSet(stock2)) =>
    /\ Len(spread) = Len(stock1)
    /\ Len(spread) = Len(stock2)
    /\ \A i \in DOMAIN spread :
         /\ spread[i].date = stock1[i].date
         /\ spread[i].date = stock2[i].date
         /\ ~spread[i].val.nan
         /\ spread[i].val.val = stock1[i].val.val - stock2[i].val.val
    /\ \A i, j \in DOMAIN spread : i < j => spread[i].date < spread[j].date

C7_Witness ==
  /\ Has("spread")
  /\ DateSet(stock1) = DateSet(stock2)
  /\ Len(spread) >= 2
  /\ spread[1].val = Num(1)
  /\ spread[2].val = Num(-1)

\* C8: verdicts are monotone in the threshold: a p-value that is below a
\* threshold is below every higher threshold, so a verdict printed as
\* stationary stays stationary at every higher threshold and a lower
\* threshold never turns a non-stationary verdict into a stationary one.
C8_VerdictMonotoneInThreshold ==
  /\ \A p \in {adf_pvalue, pp_pvalue} \ {Unbound} :
       \A tl, th \in 0..PScale :
         (tl < th /\ FLt(p, Num(tl))) => FLt(p, Num(th))
  /\ \A i \in Verdicts :
       \A t \in 0..PScale :
         /\ (t >= Threshold /\ out[i].cointegrated)
               => FLt(PValueOf(out[i].test), Num(t))
         /\ (t <= Threshold /\ FLt(PValueOf(out[i].test), Num(t)))
               => out[i].cointegrated

C8_Witness ==
  /\ Has("adf_verdict")
  /\ adf_pvalue = Num(Threshold - 1)
  /\ out[3].cointegrated
  /\ ~FLt(adf_pvalue, Num(Threshold - 1))

\* C10: a run that completes without error has executed, in this order and
\* once each: fetch 1, fetch 2, spread, summary, ADF test, ADF verdict,
\* Phillips-Perron test, Phillips-Perron verdict; it has printed exactly
\* two verdicts, each decided by its own test's p-value alone.
C10_RunOrder ==
  /\ Len(steps) <= Len(Order)
  /\ \A i \in DOMAIN steps : steps[i] = Order[i]
  /\ (pc = "done") =>
       /\ steps = Order
       /\ err = "none"
       /\ Cardinality(Verdicts) = 2
       /\ Len(out) = 5
       /\ out[3] = [line |-> "verdict", test |-> "ADF",
                    cointegrated |-> (~adf_pvalue.nan
                                       /\ adf_pvalue.val < Threshold)]
       /\ out[5] = [line |-> "verdict", test |-> "PP",
                    cointegrated |-> (~pp_pvalue.nan
                                       /\ pp_pvalue.val < Threshold)]

C10_Witness ==
  /\ pc = "done"
  /\ steps = Order
  /\ out[3].cointegrated
  /\ ~out[5].cointegrated

====
